---- MODULE Spec2Model ----
(***************************************************************************)
(* Model of scripts/repo_bundle_review_apply.py: the bundle / wait /       *)
(* extract / gate / apply pipeline of main(), and the pure text functions   *)
(* it is built from.                                                        *)
(*                                                                          *)
(* Text is a sequence of atoms.  An atom is a run of characters that the    *)
(* functions below never look inside: "<fence>" is the three backticks of  *)
(* a fence, "diff" and "--git"                                              *)
(* are words, " " and "\n" are whitespace, "a" "/" ".git" are pieces of a   *)
(* path.  Concatenating atoms gives the Python string, and every pattern    *)
(* of the source falls on atom boundaries.                                  *)
(***************************************************************************)
EXTENDS Integers, Sequences, FiniteSets, TLC

VARIABLES
    args,              \* argparse namespace of main()
    pc,                \* position of main()
    outcome,           \* "running", "ok", "exit2" or the error that ended the run
    zip_size,          \* bundle.zip size measured after the build (-1: not built)
    now,               \* time.time()
    deadline,          \* deadline of the current wait
    file_id,           \* handle returned by upload_zip ("none" before)
    response_json,     \* latest payload of create_response / get_response
    last_seen_digest,  \* _wait_for_manual_response local
    poll,              \* what the latest wait iteration did
    text,              \* response text handed to the extractor
    patch,             \* result of _extract_patch
    touches,           \* result of _diff_touches_git_dir on patch
    steps,             \* result of _extract_post_apply_steps
    calls,             \* how many times each collaborator operation was invoked
    pending,           \* exception propagating out of the try block
    config,            \* content of .git/config
    sanitized,         \* result of _sanitize_git_config
    fs,                \* file system snapshot seen by the archive builder
    entries            \* arcnames and payloads written to bundle.zip

pipeVars == <<args, pc, outcome, zip_size, now, deadline, file_id, response_json,
              last_seen_digest, poll, calls, pending>>
textVars == <<text, patch, touches, steps>>
confVars == <<config, sanitized>>
archVars == <<fs, entries>>
vars == <<args, pc, outcome, zip_size, now, deadline, file_id, response_json,
          last_seen_digest, poll, calls, pending, text, patch, touches,
          steps, config, sanitized, fs, entries>>

(***************************************************************************)
(* Python values                                                            *)
(***************************************************************************)
None == [some |-> FALSE, val |-> <<>>]
Some(v) == [some |-> TRUE, val |-> v]

Min(S) == CHOOSE x \in S : \A y \in S : x <= y
Max2(a, b) == IF a >= b THEN a ELSE b

\* str.isspace / regex \s on one atom
IsWs(a) == a \in {" ", "\n"}

RECURSIVE LStrip(_)
LStrip(s) == IF s # <<>> /\ IsWs(Head(s)) THEN LStrip(Tail(s)) ELSE s

RECURSIVE RStrip(_)
RStrip(s) ==
    IF s # <<>> /\ IsWs(s[Len(s)]) THEN RStrip(SubSeq(s, 1, Len(s) - 1)) ELSE s

\* str.strip()
Strip(s) == RStrip(LStrip(s))

\* s.startswith(p)
StartsWith(s, p) == Len(s) >= Len(p) /\ SubSeq(s, 1, Len(p)) = p

\* s.find(p) from position i; 0 stands for Python's -1
RECURSIVE FindFrom(_, _, _)
FindFrom(s, p, i) ==
    IF i + Len(p) - 1 > Len(s) THEN 0
    ELSE IF SubSeq(s, i, i + Len(p) - 1) = p THEN i
    ELSE FindFrom(s, p, i + 1)

Find(s, p) == FindFrom(s, p, 1)

\* str.splitlines(): a final line break does not open an empty last line
RECURSIVE SplitLinesAcc(_, _, _)
SplitLinesAcc(s, cur, started) ==
    IF s = <<>> THEN (IF started THEN <<cur>> ELSE <<>>)
    ELSE IF Head(s) = "\n" THEN <<cur>> \o SplitLinesAcc(Tail(s), <<>>, FALSE)
    ELSE SplitLinesAcc(Tail(s), Append(cur, Head(s)), TRUE)

SplitLines(s) == SplitLinesAcc(s, <<>>, FALSE)

\* str.split(): the maximal runs of non-whitespace
RECURSIVE SplitAcc(_, _)
SplitAcc(s, cur) ==
    IF s = <<>> THEN (IF cur = <<>> THEN <<>> ELSE <<cur>>)
    ELSE IF IsWs(Head(s))
         THEN (IF cur = <<>> THEN <<>> ELSE <<cur>>) \o SplitAcc(Tail(s), <<>>)
    ELSE SplitAcc(Tail(s), Append(cur, Head(s)))

Split(s) == SplitAcc(s, <<>>)

\* "\n".join(lines)
RECURSIVE JoinLines(_)
JoinLines(ls) ==
    IF ls = <<>> THEN <<>>
    ELSE IF Len(ls) = 1 THEN ls[1]
    ELSE ls[1] \o <<"\n">> \o JoinLines(Tail(ls))

(***************************************************************************)
(* _extract_patch                                                           *)
(***************************************************************************)
\* the three backticks of a fence, one atom
FENCE == "<fence>"
DIFF_GIT == <<"diff", " ", "--git", " ">>

\* the closing part of _DIFF_FENCE (optional whitespace, then a fence), tried at k
RECURSIVE ClosesAt(_, _)
ClosesAt(t, k) ==
    IF k > Len(t) THEN FALSE
    ELSE IF t[k] = FENCE THEN TRUE
    ELSE IF IsWs(t[k]) THEN ClosesAt(t, k + 1)
    ELSE FALSE

\* the lazy group starting at k: grow it one atom at a time until the
\* closing part matches; 0 when the text ends first
RECURSIVE LazyEnd(_, _, _)
LazyEnd(t, k, e) ==
    IF e > Len(t) THEN 0
    ELSE IF ClosesAt(t, e) THEN e
    ELSE LazyEnd(t, k, e + 1)

\* the greedy whitespace run after the tag
RECURSIVE SkipWs(_, _)
SkipWs(t, k) == IF k <= Len(t) /\ IsWs(t[k]) THEN SkipWs(t, k + 1) ELSE k

\* _DIFF_FENCE tried at position i: group(1), or None
FenceMatchAt(t, i) ==
    IF ~(i + 1 <= Len(t) /\ t[i] = FENCE /\ t[i + 1] = "diff") THEN None
    ELSE LET k == SkipWs(t, i + 2)
             e == LazyEnd(t, k, k)
         IN IF e = 0 THEN None ELSE Some(SubSeq(t, k, e - 1))

\* _DIFF_FENCE.search(text): the leftmost position where the pattern matches
RECURSIVE FenceSearchFrom(_, _)
FenceSearchFrom(t, i) ==
    IF i > Len(t) THEN None
    ELSE IF FenceMatchAt(t, i).some THEN FenceMatchAt(t, i)
    ELSE FenceSearchFrom(t, i + 1)

DIFF_FENCE_search(t) == FenceSearchFrom(t, 1)

\* a plausible slip: the bare header is looked for before the fence
extract_patch_header_first(t) ==
    LET idx == Find(t, DIFF_GIT)
        m == DIFF_FENCE_search(t)
    IN IF idx # 0 THEN Some(Strip(SubSeq(t, idx, Len(t))) \o <<"\n">>)
       ELSE IF m.some THEN Some(Strip(m.val) \o <<"\n">>)
       ELSE None

extract_patch(t) ==
    LET m == DIFF_FENCE_search(t)
        idx == Find(t, DIFF_GIT)
    IN IF m.some THEN Some(Strip(m.val) \o <<"\n">>)
       ELSE IF idx # 0 THEN Some(Strip(SubSeq(t, idx, Len(t))) \o <<"\n">>)
       ELSE None

(***************************************************************************)
(* _diff_touches_git_dir                                                    *)
(***************************************************************************)
\* a plausible slip: a prefix test without the separator
is_git_dir_path_prefix_only(path) ==
    path # <<>> /\ path[1] \in {".git", ".gitignore"}

is_git_dir_path(path) == path = <<".git">> \/ StartsWith(path, <<".git", "/">>)

\* the path with its first two atoms ("a/" or "b/") cut off: path[2:]
Cut2(path) == SubSeq(path, 3, Len(path))

\* one line of the loop: TRUE when the line makes the function return True
LineTouches(line) ==
    IF StartsWith(line, DIFF_GIT)
    THEN LET parts == Split(line)
         IN IF Len(parts) >= 4
            THEN LET a_path == IF StartsWith(parts[3], <<"a", "/">>)
                               THEN Cut2(parts[3]) ELSE parts[3]
                     b_path == IF StartsWith(parts[4], <<"b", "/">>)
                               THEN Cut2(parts[4]) ELSE parts[4]
                 IN is_git_dir_path(a_path) \/ is_git_dir_path(b_path)
            ELSE FALSE
    ELSE IF StartsWith(line, <<"---", " ">>) \/ StartsWith(line, <<"+++", " ">>)
    THEN LET parts == Split(line)
         IN IF Len(parts) >= 2
            THEN IF parts[2] = <<"/", "dev", "/", "null">> THEN FALSE
                 ELSE LET p == IF StartsWith(parts[2], <<"a", "/">>)
                                  \/ StartsWith(parts[2], <<"b", "/">>)
                               THEN Cut2(parts[2]) ELSE parts[2]
                      IN is_git_dir_path(p)
            ELSE FALSE
    ELSE FALSE

diff_touches_git_dir(diff_text) ==
    LET lines == SplitLines(diff_text)
    IN \E i \in 1..Len(lines) : LineTouches(lines[i])

(***************************************************************************)
(* _extract_post_apply_steps                                                *)
(* A line is a sequence of atoms: runs of "#", the heading words in three   *)
(* letter cases, ":", whitespace and other words.                           *)
(***************************************************************************)
HEADING == "post-apply steps"
HeadingAtoms == {"Post-apply steps", "post-apply steps", "POST-APPLY STEPS"}
MarkerAtoms == {"#", "##"}

\* re.IGNORECASE on the heading words
FoldCase(a) == IF a \in HeadingAtoms THEN HEADING ELSE a

\* the greedy #+ : the line after its leading run of "#"
RECURSIVE SkipMarkers(_)
SkipMarkers(s) ==
    IF s # <<>> /\ Head(s) \in MarkerAtoms THEN SkipMarkers(Tail(s)) ELSE s

\* how many "#" characters the leading run holds
RECURSIVE MarkerChars(_)
MarkerChars(s) ==
    IF s # <<>> /\ Head(s) \in MarkerAtoms
    THEN (IF Head(s) = "##" THEN 2 ELSE 1) + MarkerChars(Tail(s))
    ELSE 0

\* line 427: ^\s*#+\s*Post-apply steps\s*$ with IGNORECASE (no colon here)
match_marker_heading(line) ==
    LET a == LStrip(line)
        c == LStrip(SkipMarkers(a))
    IN /\ MarkerChars(a) >= 1
       /\ c # <<>> /\ FoldCase(c[1]) = HEADING
       /\ LStrip(Tail(c)) = <<>>

\* lines 427-431: ^\s*Post-apply steps\s*:?\s*$ with IGNORECASE (no marker)
match_plain_heading(line) ==
    LET a == LStrip(line)
    IN /\ a # <<>> /\ FoldCase(a[1]) = HEADING
       /\ LET r == LStrip(Tail(a))
          IN r = <<>> \/ (r[1] = ":" /\ LStrip(Tail(r)) = <<>>)

\* line 440: ^\s*#+\s*\S+ ; with nothing after the run of "#", the run gives
\* up its last character to \S+, so it needs two
match_new_heading(line) ==
    LET a == LStrip(line)
        c == LStrip(SkipMarkers(a))
    IN MarkerChars(a) >= 1 /\ (c # <<>> \/ MarkerChars(a) >= 2)

\* lines 426-433: index of the line after the first heading, 0 for None
RECURSIVE start_idx(_, _)
start_idx(lines, i) ==
    IF i > Len(lines) THEN 0
    ELSE IF match_marker_heading(lines[i]) \/ match_plain_heading(lines[i])
    THEN i + 1
    ELSE start_idx(lines, i + 1)

\* lines 438-442: the lines from i up to the next heading
RECURSIVE collected(_, _)
collected(lines, i) ==
    IF i > Len(lines) \/ match_new_heading(lines[i]) THEN <<>>
    ELSE <<lines[i]>> \o collected(lines, i + 1)

extract_post_apply_steps(t) ==
    LET lines == SplitLines(t)
        start == start_idx(lines, 1)
    IN IF start = 0 THEN None
       ELSE LET stripped == Strip(JoinLines(collected(lines, start)))
            IN IF stripped # <<>> THEN Some(stripped) ELSE None

(***************************************************************************)
(* _sanitize_git_config                                                     *)
(***************************************************************************)
REDACTED == "<redacted>"

\* atoms that begin / end with a word character (for the regex \b)
WordAtoms == {"url", "extraheader", "extraHeader", "EXTRAHEADER", "http", "u", "p",
              "host", "x", "Authorization", "Bearer", "secret123", "token"}
SchemeAtoms == {"https://", "http://", "ssh://"}
WordStart(a) == a \in WordAtoms \cup SchemeAtoms
WordEnd(a) == a \in WordAtoms

\* str.lower() on the atoms that spell the credential-header key
Lower(a) == IF a \in {"extraHeader", "EXTRAHEADER"} THEN "extraheader" ELSE a

\* re.search(r"\bextraheader\b", line): no case folding
search_extraheader_case_sensitive(line) ==
    \E i \in 1..Len(line) :
        /\ line[i] = "extraheader"
        /\ (i = 1 \/ ~WordEnd(line[i - 1]))
        /\ (i = Len(line) \/ ~WordStart(line[i + 1]))

\* re.search(r"(?i)\bextraheader\b", line)
search_extraheader(line) ==
    \E i \in 1..Len(line) :
        /\ Lower(line[i]) = "extraheader"
        /\ (i = 1 \/ ~WordEnd(line[i - 1]))
        /\ (i = Len(line) \/ ~WordStart(line[i + 1]))

\* the end of the maximal run of non-whitespace starting at k (regex \S+)
RECURSIVE SkipNonWs(_, _)
SkipNonWs(t, k) == IF k <= Len(t) /\ ~IsWs(t[k]) THEN SkipNonWs(t, k + 1) ELSE k

\* re.search(r"^(\s*url\s*=\s*)(\S+)(\s*)$", line): the three groups, or None
search_url_line(line) ==
    LET p0 == SkipWs(line, 1)
        p1 == SkipWs(line, p0 + 1)
        p2 == SkipWs(line, p1 + 1)
        p3 == SkipNonWs(line, p2)
        p4 == SkipWs(line, p3)
    IN IF /\ p0 <= Len(line) /\ line[p0] = "url"
          /\ p1 <= Len(line) /\ line[p1] = "="
          /\ p3 > p2
          /\ p4 > Len(line)
       THEN Some(<<SubSeq(line, 1, p2 - 1), SubSeq(line, p2, p3 - 1),
                   SubSeq(line, p3, Len(line))>>)
       ELSE None

\* atoms that the class [^/@\s] rejects
HasSlashOrAt(a) == a \in {"/", "@"} \cup SchemeAtoms

\* the end of the run [^/@\s]+ starting at k
RECURSIVE SkipUserinfo(_, _)
SkipUserinfo(u, k) ==
    IF k <= Len(u) /\ ~HasSlashOrAt(u[k]) /\ ~IsWs(u[k]) THEN SkipUserinfo(u, k + 1)
    ELSE k

\* _HTTP_URL_WITH_USERINFO.match(url): groups 1 and 3 joined, or the url itself
strip_userinfo(url) ==
    IF url # <<>> /\ url[1] \in {"https://", "http://"}
    THEN LET q == SkipUserinfo(url, 2)
         IN IF q > 2 /\ q <= Len(url) /\ url[q] = "@" /\ q < Len(url)
            THEN <<url[1]>> \o SubSeq(url, q + 1, Len(url))
            ELSE url
    ELSE url

\* the position of the first "=" of the line, 0 when there is none
FirstEq(line) == Find(line, <<"=">>)

\* the body of the loop for one line
sanitize_line(line) ==
    IF search_extraheader(line)
    THEN IF FirstEq(line) # 0
         THEN SubSeq(line, 1, FirstEq(line) - 1) \o <<"=", " ", REDACTED>>
         ELSE <<REDACTED>>
    ELSE LET m == search_url_line(line)
         IN IF m.some
            THEN RStrip(m.val[1] \o strip_userinfo(m.val[2]) \o m.val[3])
            ELSE RStrip(line)

RECURSIVE sanitize_lines(_)
sanitize_lines(ls) ==
    IF ls = <<>> THEN <<>>
    ELSE <<sanitize_line(Head(ls))>> \o sanitize_lines(Tail(ls))

sanitize_git_config(raw) ==
    LET trailing_newline == IF raw # <<>> /\ raw[Len(raw)] = "\n" THEN <<"\n">> ELSE <<>>
    IN JoinLines(sanitize_lines(SplitLines(raw))) \o trailing_newline

(***************************************************************************)
(* The archive builder: _iter_repo_files_excluding_ignored, _zip_add_file,  *)
(* _zip_add_git_dir, _create_repo_bundle_zip.                               *)
(*                                                                          *)
(* A path is the sequence of its components, relative to the repository     *)
(* root.  fs is the snapshot the builder sees:                              *)
(*   tracked, untracked  the two answers of git ls-files                    *)
(*   dirs                listed paths that are directories                  *)
(*   symlinks            listed paths that are symbolic links               *)
(*   missing             listed paths that vanish before they are packed    *)
(*   git_kind            ".git" is a "dir", a "file" or "absent"            *)
(*   git_files           the files below .git                               *)
(*   artifact_dir        its path when inside the repository (the empty     *)
(*                       path: the root itself or a directory above it),   *)
(*                       None when it is somewhere else                     *)
(*   config_readable     read_text of .git/config succeeds                  *)
(***************************************************************************)
DEFAULT_ARTIFACT_DIRNAME == ".codex-review"
DEFAULT_MAX_ZIP_BYTES == 100 * 1024 * 1024

\* path p is d or lies below d: p.relative_to(d) succeeds
IsRelativeTo(p, d) == Len(d) <= Len(p) /\ SubSeq(p, 1, Len(d)) = d

\* Path.name of the last component ends with ".lock"
LockNames == {"index.lock", "main.lock"}
EndsWithLock(p) == p # <<>> /\ p[Len(p)] \in LockNames

\* every path below .git the model knows, in the order sorted() gives them
SortedGitPaths ==
    << <<".git", "HEAD">>,
       <<".git", "codex-review", "bundle.zip">>,
       <<".git", "config">>,
       <<".git", "hooks", "pre-commit">>,
       <<".git", "index">>,
       <<".git", "index.lock">>,
       <<".git", "info", "exclude">>,
       <<".git", "refs", "heads", "main">>,
       <<".git", "refs", "heads", "main.lock">>,
       <<".git", "refs", "out", "bundle.zip">> >>

\* sorted(S) for a set of paths below .git
RECURSIVE SortedFrom(_, _)
SortedFrom(S, i) ==
    IF i > Len(SortedGitPaths) THEN <<>>
    ELSE (IF SortedGitPaths[i] \in S THEN <<SortedGitPaths[i]>> ELSE <<>>)
         \o SortedFrom(S, i + 1)

Sorted(S) == SortedFrom(S, 1)

\* the ordered, de-duplicated union of tracked and untracked paths
RECURSIVE DedupAcc(_, _)
DedupAcc(rels, seen) ==
    IF rels = <<>> THEN <<>>
    ELSE IF Head(rels) = <<>> \/ Head(rels) \in seen THEN DedupAcc(Tail(rels), seen)
    ELSE <<Head(rels)>> \o DedupAcc(Tail(rels), seen \cup {Head(rels)})

iter_repo_files_excluding_ignored(f) == DedupAcc(f.tracked \o f.untracked, {})

\* _zip_add_file: the entries it appends (none when the file has vanished)
zip_add_file(f, file_path, arcname) ==
    IF file_path \in f.symlinks
    THEN << [arcname |-> arcname, kind |-> "symlink", src |-> file_path, data |-> <<>>] >>
    ELSE IF file_path \in f.missing THEN <<>>
    ELSE << [arcname |-> arcname, kind |-> "file", src |-> file_path, data |-> <<>>] >>

\* artifact_dir.mkdir and the opening of bundle.zip for writing happen before
\* the walk: the files below .git at the time of the walk
GitFilesAtWalk(f) ==
    f.git_files \cup
        (IF f.artifact_dir.some /\ IsRelativeTo(f.artifact_dir.val, <<".git">>)
         THEN {f.artifact_dir.val \o <<"bundle.zip">>} ELSE {})

\* root.exists() and root.is_dir() for a path below .git
GitExists(f, root) == \E q \in GitFilesAtWalk(f) : IsRelativeTo(q, root)
GitIsDir(f, root) == \E q \in GitFilesAtWalk(f) : IsRelativeTo(q, root) /\ q # root

\* sorted(root.rglob("*")) without the directories
GitChildren(f, root) ==
    Sorted({q \in GitFilesAtWalk(f) : IsRelativeTo(q, root) /\ q # root})

RECURSIVE AddAll(_, _)
AddAll(f, paths) ==
    IF paths = <<>> THEN <<>>
    ELSE zip_add_file(f, Head(paths), Head(paths)) \o AddAll(f, Tail(paths))

allow_roots ==
    << <<".git", "HEAD">>, <<".git", "packed-refs">>, <<".git", "refs">>,
       <<".git", "info", "exclude">>, <<".git", "description">>, <<".git", "config">> >>

\* the body of the loop over allow_roots for one root
AddAllowRoot(f, conf, root) ==
    IF ~GitExists(f, root) THEN <<>>
    ELSE IF GitIsDir(f, root) THEN AddAll(f, GitChildren(f, root))
    ELSE IF root = <<".git", "config">>
         THEN IF f.config_readable
              THEN << [arcname |-> root, kind |-> "text", src |-> <<>>,
                       data |-> sanitize_git_config(conf)] >>
              ELSE <<>>
    ELSE zip_add_file(f, root, root)

RECURSIVE AddAllowRoots(_, _, _)
AddAllowRoots(f, conf, roots) ==
    IF roots = <<>> THEN <<>>
    ELSE AddAllowRoot(f, conf, Head(roots)) \o AddAllowRoots(f, conf, Tail(roots))

RECURSIVE NoLocks(_)
NoLocks(paths) ==
    IF paths = <<>> THEN <<>>
    ELSE (IF EndsWithLock(Head(paths)) THEN <<>> ELSE <<Head(paths)>>)
         \o NoLocks(Tail(paths))

\* .git is a directory when the walk starts
GitDirIsDir(f) ==
    \/ f.git_kind = "dir"
    \/ f.git_kind = "absent" /\ GitFilesAtWalk(f) # {}

zip_add_git_dir(f, conf, include_git) ==
    IF include_git = "none" THEN <<>>
    ELSE IF f.git_kind = "file" THEN zip_add_file(f, <<".git">>, <<".git">>)
    ELSE IF ~GitDirIsDir(f) THEN <<>>
    ELSE IF include_git = "metadata" THEN AddAllowRoots(f, conf, allow_roots)
    ELSE AddAll(f, NoLocks(GitChildren(f, <<".git">>)))

\* the loop over the enumerated files
RECURSIVE AddRepoFiles(_, _)
AddRepoFiles(f, files) ==
    IF files = <<>> THEN <<>>
    ELSE LET rel == Head(files)
             skip == \/ rel \in f.dirs
                     \/ f.artifact_dir.some /\ IsRelativeTo(rel, f.artifact_dir.val)
                     \/ StartsWith(rel, <<".git">>)
         IN (IF skip THEN <<>> ELSE zip_add_file(f, rel, rel))
            \o AddRepoFiles(f, Tail(files))

\* the entries written inside the "with zipfile.ZipFile" block
bundle_entries(f, conf, include_git) ==
    AddRepoFiles(f, iter_repo_files_excluding_ignored(f))
        \o zip_add_git_dir(f, conf, include_git)

\* a plausible slip: the ceiling test is off by one
size_exceeds_off_by_one(size, max_zip_bytes) == size > max_zip_bytes + 1

size_exceeds(size, max_zip_bytes) == size > max_zip_bytes

(***************************************************************************)
(* Response payloads and _extract_output_text                               *)
(***************************************************************************)
\* a response of the reviewing agent: "output" holds the text of the content
\* items of type output_text / text, in order
Payload(st, ot, out) == [status |-> st, output_text |-> ot, output |-> out]
NoPayload == Payload("none", None, <<>>)

TERMINAL == {"completed", "failed", "canceled"}

extract_output_text(r) ==
    IF r.output_text.some /\ Strip(r.output_text.val) # <<>>
    THEN Strip(r.output_text.val)
    ELSE Strip(JoinLines(r.output))

\* hashlib.sha256(text).hexdigest(): equal digests exactly for equal texts
sha256_hexdigest(t) == Some(t)

(***************************************************************************)
(* Inputs of the pipeline                                                   *)
(***************************************************************************)
T_EMPTY == <<>>
T_BLANK == <<" ", "\n">>
T_PROSE == <<"Feedback", "\n">>
T_GOOD == <<"Feedback", "\n", FENCE, "diff", "\n",
            "diff", " ", "--git", " ", "a", "/", "x", " ", "b", "/", "x", "\n",
            FENCE, "\n">>
T_GIT == <<FENCE, "diff", "\n",
           "diff", " ", "--git", " ", "a", "/", ".git", "/", "config", " ",
           "b", "/", ".git", "/", "config", "\n", FENCE, "\n">>
T_BARE == <<"Feedback", "\n",
            "diff", " ", "--git", " ", "a", "/", "x", " ", "b", "/", "x", "\n">>

TextPool == {T_EMPTY, T_BLANK, T_PROSE, T_GOOD, T_GIT, T_BARE}

\* what one poll of the response file can observe
FileObs ==
    {[kind |-> "missing", content |-> <<>>], [kind |-> "oserror", content |-> <<>>]}
    \cup {[kind |-> "read", content |-> t] : t \in TextPool}

PayloadPool ==
    {Payload("queued", None, <<>>), Payload("in_progress", None, <<>>)}
    \cup {Payload("completed", ot, <<>>) :
            ot \in {None, Some(T_GOOD), Some(T_GIT), Some(T_PROSE), Some(T_BLANK)}}
    \cup {Payload("completed", None, <<T_BARE>>)}
    \cup {Payload("failed", ot, <<>>) : ot \in {None, Some(T_GOOD)}}
    \cup {Payload("canceled", ot, <<>>) : ot \in {None, Some(T_GOOD)}}

\* answers of the HTTP collaborator: a 2xx reply, a non-2xx reply, or urlopen
\* raising (URLError, timeout), which _request does not catch
HttpReplies == {"ok", "http_error", "transport_error"}

\* latency added to a sleep by the calls of one iteration
MaxLatency == 1

\* the sleeps a wait may need before its deadline has passed
MaxPolls == 2

PollIntervals == {-5, 0, 40}
TimeoutMinutes == {0, 1}
\* ceilings and measured sizes in bytes; an empty zip file measures 22
ZipCeilings == {10, 22}
ZipSizes == {22, 23}

ArgsPool ==
    {a \in [manual : BOOLEAN, manual_input : {"file", "stdin"}, bundle_only : BOOLEAN,
            no_background : BOOLEAN, no_apply : BOOLEAN,
            allow_git_dir_changes : BOOLEAN, no_cleanup : BOOLEAN,
            creds : {"ok", "no_api_key", "no_model"},
            include_git : {"none", "metadata", "full"},
            poll_interval_seconds : PollIntervals, timeout_minutes : TimeoutMinutes,
            max_zip_bytes : ZipCeilings] :
        a.timeout_minutes * 60 <= MaxPolls * Max2(1, a.poll_interval_seconds)}

ArgsDefault ==
    [manual |-> FALSE, manual_input |-> "file", bundle_only |-> FALSE,
     no_background |-> FALSE, no_apply |-> FALSE, allow_git_dir_changes |-> FALSE,
     no_cleanup |-> FALSE, creds |-> "ok", include_git |-> "metadata",
     poll_interval_seconds |-> 30, timeout_minutes |-> 90,
     max_zip_bytes |-> DEFAULT_MAX_ZIP_BYTES]

NoPoll == [kind |-> "none", content |-> <<>>, prev |-> None, ran_extract |-> FALSE,
           warned |-> FALSE, returned |-> FALSE, reply |-> NoPayload]

NoCalls == [build |-> 0, upload |-> 0, create |-> 0, delete |-> 0, apply |-> 0,
            strict |-> 0, threeway |-> 0, tree_writes |-> 0,
            proc |-> None, proc_3way |-> None, error |-> <<>>]

EmptyFs == [tracked |-> <<>>, untracked |-> <<>>, dirs |-> {}, symlinks |-> {},
            missing |-> {}, git_kind |-> "dir", git_files |-> {},
            artifact_dir |-> None, config_readable |-> TRUE]

\* the tree of the end-to-end scenarios: one tracked file, a token in the config
ScenarioFs ==
    [EmptyFs EXCEPT !.tracked = << <<"a.txt">> >>,
                    !.untracked = << <<DEFAULT_ARTIFACT_DIRNAME, "bundle.zip">> >>,
                    !.git_files = { <<".git", "HEAD">>, <<".git", "config">> },
                    !.artifact_dir = Some(<<DEFAULT_ARTIFACT_DIRNAME>>)]

ScenarioConfig ==
    <<"http", ".", "extraHeader", " ", "=", " ", "Authorization", ":", " ",
      "Bearer", " ", "secret123", "\n">>

PipeIdle(at) ==
    /\ args = ArgsDefault /\ pc = at /\ outcome = "running" /\ zip_size = -1
    /\ now = 0 /\ deadline = 0 /\ file_id = "none" /\ response_json = NoPayload
    /\ last_seen_digest = None /\ poll = NoPoll /\ calls = NoCalls
    /\ pending = "none"
TextIdle == text = <<>> /\ patch = None /\ touches = FALSE /\ steps = None
ConfIdle == config = <<>> /\ sanitized = <<>>
ArchIdle == fs = EmptyFs /\ entries = <<>>

(***************************************************************************)
(* main(): build, dispatch                                                  *)
(***************************************************************************)
Fail(err) == outcome' = err /\ pc' = "done"

\* artifact_dir.mkdir(parents=True) cannot succeed below a .git that is a file
MkdirFails(f) ==
    /\ f.git_kind = "file"
    /\ f.artifact_dir.some
    /\ IsRelativeTo(f.artifact_dir.val, <<".git">>)

\* _create_repo_bundle_zip, called at the start of main()
CreateRepoBundleZip ==
    /\ pc = "build"
    /\ IF MkdirFails(fs)
       THEN /\ Fail("OSError")
            /\ UNCHANGED <<entries, zip_size, calls>>
       ELSE \E size \in ZipSizes :
            /\ entries' = bundle_entries(fs, config, args.include_git)
            /\ zip_size' = size
            /\ calls' = [calls EXCEPT !.build = @ + 1]
            /\ IF size_exceeds(size, args.max_zip_bytes)
               THEN Fail("ArchiveTooLarge")
               ELSE pc' = "built" /\ UNCHANGED outcome
    /\ UNCHANGED <<args, now, deadline, file_id, response_json, last_seen_digest,
                   poll, pending, textVars, config, sanitized, fs>>

\* --bundle-only: print the paths and return 0
BundleOnly ==
    /\ pc = "built" /\ args.bundle_only
    /\ outcome' = "ok" /\ pc' = "done"
    /\ UNCHANGED <<args, zip_size, now, deadline, file_id, response_json,
                   last_seen_digest, poll, calls, pending, textVars, confVars,
                   archVars>>

\* --manual: write the prompt, print the instructions, enter the chosen input;
\* _wait_for_manual_response computes its deadline on entry
ManualSetup ==
    /\ pc = "built" /\ ~args.bundle_only /\ args.manual
    /\ IF args.manual_input = "stdin"
       THEN pc' = "manual_stdin" /\ UNCHANGED <<deadline, last_seen_digest>>
       ELSE /\ pc' = "manual_wait"
            /\ deadline' = now + args.timeout_minutes * 60
            /\ last_seen_digest' = None
    /\ UNCHANGED <<args, outcome, zip_size, now, file_id, response_json, poll,
                   calls, pending, textVars, confVars, archVars>>

\* the API key and the model must be set before any request is made
CheckCredentials ==
    /\ pc = "built" /\ ~args.bundle_only /\ ~args.manual
    /\ IF args.creds # "ok"
       THEN outcome' = "exit2" /\ pc' = "done"
       ELSE pc' = "upload" /\ UNCHANGED outcome
    /\ UNCHANGED <<args, zip_size, now, deadline, file_id, response_json,
                   last_seen_digest, poll, calls, pending, textVars, confVars,
                   archVars>>

(***************************************************************************)
(* Manual mode: stdin, and _wait_for_manual_response                        *)
(***************************************************************************)
\* _read_manual_response_from_stdin: the pasted text, or Ctrl-C
ReadStdin ==
    /\ pc = "manual_stdin"
    /\ \/ \E t \in TextPool : text' = t /\ pc' = "extract" /\ UNCHANGED outcome
       \/ Fail("Canceled") /\ UNCHANGED text
    /\ UNCHANGED <<args, zip_size, now, deadline, file_id, response_json,
                   last_seen_digest, poll, calls, pending, patch, touches,
                   confVars, archVars, steps>>

\* a plausible slip: the interval is clamped at 0, not at 1
sleep_seconds_floor_zero(interval) == Max2(0, interval)

\* lines 359, 373, 696: max(1, poll_interval_seconds)
sleep_seconds(interval) == Max2(1, interval)

\* time.sleep(max(1, poll_interval_seconds)), plus the time the calls took
Slept(lat) == now' = now + sleep_seconds(args.poll_interval_seconds) + lat

\* a plausible slip: the digest is remembered only once a patch was found
remember_digest_on_success_only(last, digest, found) == IF found THEN digest ELSE last

\* line 364: the digest of every changed reading is remembered
remember_digest(last, digest, found) == digest

\* a plausible slip: any non-empty reading is reported
should_warn_nonempty(t) == t # <<>>

\* line 367: text.strip() is non-empty
should_warn(t) == Strip(t) # <<>>

\* the content of the most recent successful read of the response file, if any
\* (poll.prev carries it across the iterations that read nothing)
LastRead == IF poll.kind = "read" THEN Some(poll.content) ELSE poll.prev

\* one iteration of the loop of _wait_for_manual_response
ManualWaitIter ==
    /\ pc = "manual_wait"
    /\ IF now > deadline
       THEN /\ Fail("WaitTimedOut")
            /\ poll' = [NoPoll EXCEPT !.kind = "timeout", !.prev = LastRead]
            /\ UNCHANGED <<now, last_seen_digest, text>>
       ELSE \E obs \in FileObs, lat \in 0..MaxLatency :
            IF obs.kind # "read"
            THEN /\ poll' = [NoPoll EXCEPT !.kind = obs.kind, !.prev = LastRead]
                 /\ Slept(lat)
                 /\ UNCHANGED <<pc, outcome, last_seen_digest, text>>
            ELSE LET digest == sha256_hexdigest(obs.content)
                     changed == last_seen_digest # digest
                     found == extract_patch(obs.content).some
                 IN /\ last_seen_digest' =
                           IF changed THEN remember_digest(last_seen_digest, digest, found)
                           ELSE last_seen_digest
                    /\ poll' = [kind |-> "read", content |-> obs.content,
                                prev |-> LastRead, ran_extract |-> changed,
                                warned |-> changed /\ ~found /\ should_warn(obs.content),
                                returned |-> changed /\ found, reply |-> NoPayload]
                    /\ IF changed /\ found
                       THEN text' = obs.content /\ pc' = "extract" /\ UNCHANGED now
                       ELSE Slept(lat) /\ UNCHANGED <<pc, text>>
                    /\ UNCHANGED outcome
    /\ UNCHANGED <<args, zip_size, deadline, file_id, response_json, calls,
                   pending, patch, touches, confVars, archVars, steps>>

(***************************************************************************)
(* Remote mode: upload, create, poll, cleanup                               *)
(***************************************************************************)
\* client.upload_zip: the reply is 2xx with an id, 2xx without an id, non-2xx,
\* or the request raises
UploadZip ==
    /\ pc = "upload"
    /\ calls' = [calls EXCEPT !.upload = @ + 1]
    /\ \E reply \in HttpReplies \cup {"missing_id"} :
          CASE reply = "ok" -> file_id' = "file-1" /\ pc' = "create" /\ UNCHANGED outcome
            [] reply = "missing_id" -> Fail("UnexpectedUploadResponse") /\ UNCHANGED file_id
            [] reply = "http_error" -> Fail("RemoteRequestFailed(upload)") /\ UNCHANGED file_id
            [] OTHER -> Fail("URLError(upload)") /\ UNCHANGED file_id
    /\ UNCHANGED <<args, zip_size, now, deadline, response_json, last_seen_digest,
                   poll, pending, textVars, confVars, archVars>>

\* an exception inside the try block: it propagates once the finally has run
Raise(err) == pending' = err /\ pc' = "finally"

\* lines 657-685: create the response; with background, the deadline is set
CreateResponse ==
    /\ pc = "create"
    /\ calls' = [calls EXCEPT !.create = @ + 1]
    /\ \E reply \in HttpReplies \cup {"missing_id"}, r \in PayloadPool :
          CASE reply = "ok" ->
                  /\ response_json' = r
                  /\ poll' = [NoPoll EXCEPT !.kind = "remote", !.reply = r]
                  /\ IF args.no_background
                     THEN pc' = "finally" /\ UNCHANGED deadline
                     ELSE pc' = "poll" /\ deadline' = now + args.timeout_minutes * 60
                  /\ UNCHANGED pending
            [] reply = "missing_id" ->
                  /\ Raise("UnexpectedCreatePayload")
                  /\ UNCHANGED <<response_json, poll, deadline>>
            [] reply = "http_error" ->
                  /\ Raise("RemoteRequestFailed(create)")
                  /\ UNCHANGED <<response_json, poll, deadline>>
            [] OTHER ->
                  /\ Raise("URLError(create)")
                  /\ UNCHANGED <<response_json, poll, deadline>>
    /\ UNCHANGED <<args, outcome, zip_size, now, file_id, last_seen_digest,
                   textVars, confVars, archVars>>

\* a plausible slip: the deadline is tested before the status
poll_decision_deadline_first(status, t, dl) ==
    IF t > dl THEN "timeout"
    ELSE IF status \in TERMINAL THEN "break"
    ELSE "sleep"

\* lines 687-690: what one pass of the loop does with the latest status
poll_decision(status, t, dl) ==
    IF status \in TERMINAL THEN "break"
    ELSE IF t > dl THEN "timeout"
    ELSE "sleep"

\* one iteration of the poll loop of main()
RemotePollIter ==
    /\ pc = "poll"
    /\ LET d == poll_decision(response_json.status, now, deadline)
       IN CASE d = "break" ->
                  /\ pc' = "finally"
                  /\ UNCHANGED <<pending, now, response_json, poll>>
            [] d = "timeout" ->
                  /\ Raise("WaitTimedOut")
                  /\ UNCHANGED <<now, response_json, poll>>
            [] OTHER ->
                  \E lat \in 0..MaxLatency, reply \in HttpReplies, r \in PayloadPool :
                     /\ Slept(lat)
                     /\ CASE reply = "ok" ->
                               /\ response_json' = r
                               /\ poll' = [NoPoll EXCEPT !.kind = "remote", !.reply = r]
                               /\ UNCHANGED <<pc, pending>>
                          [] reply = "http_error" ->
                               /\ Raise("RemoteRequestFailed(get)")
                               /\ UNCHANGED <<response_json, poll>>
                          [] OTHER ->
                               /\ Raise("URLError(get)")
                               /\ UNCHANGED <<response_json, poll>>
    /\ UNCHANGED <<args, outcome, zip_size, deadline, file_id, last_seen_digest,
                   calls, textVars, confVars, archVars>>

\* the finally block: delete_file ignores the status of the reply, and does not
\* catch what urlopen raises; an exception raised here replaces the pending one
Cleanup ==
    /\ pc = "finally"
    /\ IF args.no_cleanup
       THEN /\ UNCHANGED calls
            /\ IF pending # "none" THEN Fail(pending)
               ELSE pc' = "save_response" /\ UNCHANGED outcome
       ELSE /\ calls' = [calls EXCEPT !.delete = @ + 1]
            /\ \E reply \in HttpReplies :
                  IF reply = "transport_error" THEN Fail("URLError(delete)")
                  ELSE IF pending # "none" THEN Fail(pending)
                  ELSE pc' = "save_response" /\ UNCHANGED outcome
    /\ UNCHANGED <<args, zip_size, now, deadline, file_id, response_json,
                   last_seen_digest, poll, pending, textVars, confVars, archVars>>

\* lines 702-710: save response.json, take the output text, save response.md
SaveResponse ==
    /\ pc = "save_response"
    /\ LET t == extract_output_text(response_json)
       IN IF t = <<>>
          THEN Fail("NoOutputText") /\ UNCHANGED text
          ELSE text' = t /\ pc' = "extract" /\ UNCHANGED outcome
    /\ UNCHANGED <<args, zip_size, now, deadline, file_id, response_json,
                   last_seen_digest, poll, calls, pending, patch, touches,
                   confVars, archVars, steps>>

(***************************************************************************)
(* Both modes: extract, gate, apply                                         *)
(***************************************************************************)
\* lines 620-622 and 712-714
ExtractPatch ==
    /\ pc = "extract"
    /\ patch' = extract_patch(text)
    /\ IF ~patch'.some \/ patch'.val = <<>>
       THEN Fail("NoExtractablePatch")
       ELSE pc' = "gate" /\ UNCHANGED outcome
    /\ UNCHANGED <<args, zip_size, now, deadline, file_id, response_json,
                   last_seen_digest, poll, calls, pending, text, touches,
                   confVars, archVars, steps>>

\* a plausible slip: the override test is inverted
gate_refuses_inverted(allow, t) == allow /\ t

\* lines 624 and 716: refuse unless overridden
gate_refuses(allow, t) == ~allow /\ t

\* lines 624-629 and 716-721: the safety gate, then patch.diff is written
SafetyGate ==
    /\ pc = "gate"
    /\ touches' = diff_touches_git_dir(patch.val)
    /\ IF gate_refuses(args.allow_git_dir_changes, touches')
       THEN Fail("InternalsTouched")
       ELSE pc' = "apply" /\ UNCHANGED outcome
    /\ UNCHANGED <<args, zip_size, now, deadline, file_id, response_json,
                   last_seen_digest, poll, calls, pending, text, patch,
                   confVars, archVars, steps>>

\* what a finished git process hands back: its return code and its stderr
ReturnCodes == {0, 1}
StderrPool == {"error: patch failed", "error: corrupt patch"}
CompletedProcess(rc, err) == Some([returncode |-> rc, stderr |-> err])

\* lines 482-483: the three-way attempt runs only when the strict one failed
run_threeway_always(rc) == TRUE
run_threeway(rc) == rc # 0

\* lines 490-494: the message of the RuntimeError raised when both failed
apply_error(err, err_3way) ==
    <<"Failed to apply patch.\n", "git apply error:\n", err, "\n",
      "git apply --3way error:\n", err_3way>>

\* lines 631-633 and 723-725 with _apply_patch: git apply, then git apply --3way
ApplyPatch ==
    /\ pc = "apply"
    /\ IF args.no_apply
       THEN pc' = "report" /\ UNCHANGED <<outcome, calls>>
       ELSE \E rc \in ReturnCodes, err \in StderrPool,
               rc_3way \in ReturnCodes, err_3way \in StderrPool :
            LET fallback == run_threeway(rc)
                applied == rc = 0 \/ rc_3way = 0
            IN IF ~fallback
               THEN /\ calls' = [calls EXCEPT
                                    !.apply = @ + 1,
                                    !.strict = @ + 1,
                                    !.tree_writes = @ + 1,
                                    !.proc = CompletedProcess(rc, err)]
                    /\ pc' = "report" /\ UNCHANGED outcome
               ELSE /\ calls' = [calls EXCEPT
                                    !.apply = @ + 1,
                                    !.strict = @ + 1,
                                    !.threeway = @ + 1,
                                    !.tree_writes = @ + (IF applied THEN 1 ELSE 0),
                                    !.proc = CompletedProcess(rc, err),
                                    !.proc_3way = CompletedProcess(rc_3way, err_3way),
                                    !.error = IF rc_3way = 0 THEN <<>>
                                              ELSE apply_error(err, err_3way)]
                    /\ IF rc_3way = 0
                       THEN pc' = "report" /\ UNCHANGED outcome
                       ELSE Fail("PatchApplyFailed")
    /\ UNCHANGED <<args, zip_size, now, deadline, file_id, response_json,
                   last_seen_digest, poll, pending, textVars, confVars, archVars>>

\* lines 635-642 and 727-734: the closing prints with the steps; return 0
Report ==
    /\ pc = "report"
    /\ steps' = extract_post_apply_steps(text)
    /\ outcome' = "ok" /\ pc' = "done"
    /\ UNCHANGED <<args, zip_size, now, deadline, file_id, response_json,
                   last_seen_digest, poll, calls, pending, text, patch, touches,
                   confVars, archVars>>

(***************************************************************************)
(* The run of main() over every flag combination                            *)
(***************************************************************************)
Init ==
    /\ args \in ArgsPool
    /\ pc = "build" /\ outcome = "running" /\ zip_size = -1
    /\ now = 0 /\ deadline = 0 /\ file_id = "none" /\ response_json = NoPayload
    /\ last_seen_digest = None /\ poll = NoPoll /\ calls = NoCalls
    /\ pending = "none"
    /\ TextIdle
    /\ config = ScenarioConfig /\ sanitized = <<>>
    /\ fs = ScenarioFs /\ entries = <<>>

Next ==
    \/ CreateRepoBundleZip
    \/ BundleOnly
    \/ ManualSetup
    \/ CheckCredentials
    \/ ReadStdin
    \/ ManualWaitIter
    \/ UploadZip
    \/ CreateResponse
    \/ RemotePollIter
    \/ Cleanup
    \/ SaveResponse
    \/ ExtractPatch
    \/ SafetyGate
    \/ ApplyPatch
    \/ Report

Spec == Init /\ [][Next]_vars

\* the flag combinations that decide how a wait goes: the mode, the input, the
\* interval and the timeout; the flags that act after the wait are left unset
LiveArgs ==
    {a \in ArgsPool :
        /\ ~a.no_apply /\ ~a.allow_git_dir_changes /\ ~a.no_cleanup
        /\ a.creds = "ok" /\ a.include_git = "none" /\ a.max_zip_bytes = 22}

InitLive == Init /\ args \in LiveArgs

\* main() keeps running: a step that can be taken is eventually taken (every
\* collaborator call and every file read returns)
SpecLive == InitLive /\ [][Next]_vars /\ WF_vars(Next)

(***************************************************************************)
(* _extract_patch on its own, over texts put together from a few chunks     *)
(***************************************************************************)
MaxChunks == 5

ExtractChunks ==
    { <<FENCE>>, <<FENCE, "diff", "\n">>, <<"diff">>, DIFF_GIT, <<" ">>, <<"\n">>, <<"x">> }

RECURSIVE Concat(_)
Concat(ss) == IF ss = <<>> THEN <<>> ELSE Head(ss) \o Concat(Tail(ss))

ExtractInputs ==
    {Concat(c) : c \in UNION {[1..n -> ExtractChunks] : n \in 0..MaxChunks}}

InitExtract ==
    /\ PipeIdle("fn_extract")
    /\ text \in ExtractInputs /\ patch = None /\ touches = FALSE
    /\ steps = None
    /\ ConfIdle /\ ArchIdle

FnExtractPatch ==
    /\ pc = "fn_extract"
    /\ patch' = extract_patch(text)
    /\ pc' = "fn_done"
    /\ UNCHANGED <<args, outcome, zip_size, now, deadline, file_id, response_json,
                   last_seen_digest, poll, calls, pending, text, touches,
                   confVars, archVars, steps>>

NextExtract == FnExtractPatch

SpecExtract == InitExtract /\ [][NextExtract]_vars

(***************************************************************************)
(* _diff_touches_git_dir on its own, over diffs of a few lines              *)
(***************************************************************************)
MaxDiffLines == 2

P_A_GIT == <<"a", "/", ".git", "/", "config">>
P_B_GIT == <<"b", "/", ".git", "/", "config">>
P_A_IGNORE == <<"a", "/", ".gitignore">>
P_B_IGNORE == <<"b", "/", ".gitignore">>
P_A_X == <<"a", "/", "x">>
P_B_X == <<"b", "/", "x">>
P_GIT == <<".git">>
P_NESTED == <<"a", "/", "b", "/", ".git">>
P_DEV_NULL == <<"/", "dev", "/", "null">>

GateLines ==
    {DIFF_GIT \o p \o <<" ">> \o q :
        p \in {P_A_GIT, P_A_IGNORE, P_B_GIT, P_GIT, P_A_X},
        q \in {P_B_GIT, P_B_IGNORE, P_A_GIT, P_B_X}}
    \cup {DIFF_GIT \o P_A_GIT}
    \cup {<<h, " ">> \o p :
            h \in {"---", "+++"},
            p \in {P_A_GIT, P_B_GIT, P_DEV_NULL, P_A_X, P_GIT, P_NESTED, P_A_IGNORE}}
    \cup { <<" ">> \o DIFF_GIT \o P_A_GIT \o <<" ">> \o P_B_GIT,
           <<"index", " ">> \o P_GIT,
           <<"-", " ">> \o P_GIT }

GateInputs ==
    {JoinLines(ls) \o <<"\n">> :
        ls \in UNION {[1..n -> GateLines] : n \in 1..MaxDiffLines}}

InitGate ==
    /\ PipeIdle("fn_gate")
    /\ text = <<>> /\ patch \in {Some(d) : d \in GateInputs} /\ touches = FALSE
    /\ steps = None
    /\ ConfIdle /\ ArchIdle

FnDiffTouchesGitDir ==
    /\ pc = "fn_gate"
    /\ touches' = diff_touches_git_dir(patch.val)
    /\ pc' = "fn_done"
    /\ UNCHANGED <<args, outcome, zip_size, now, deadline, file_id, response_json,
                   last_seen_digest, poll, calls, pending, text, patch,
                   confVars, archVars, steps>>

NextGate == FnDiffTouchesGitDir

SpecGate == InitGate /\ [][NextGate]_vars

(***************************************************************************)
(* _sanitize_git_config on its own, applied to its own output               *)
(***************************************************************************)
MaxConfigLines == 2

ConfigKeys == { <<"url">>, <<" ", "url">>, <<"http", ".", "extraHeader">>,
                <<"x", "extraheader">> }
ConfigSeps == { <<" ", "=", " ">>, <<"=">>, <<" ">> }
ConfigValues ==
    { <<"https://", "u", "@", "host", "/", "x">>,
      <<"https://", "u", "@", "p", "@", "host">>,
      <<"ssh://", "u", "@", "host">>,
      <<"Bearer", " ", "token", "=", "secret123", " ">> }

ConfigLines == {k \o e \o v : k \in ConfigKeys, e \in ConfigSeps, v \in ConfigValues}

ConfigInputs ==
    {JoinLines(ls) \o nl :
        ls \in UNION {[1..n -> ConfigLines] : n \in 0..MaxConfigLines},
        nl \in {<<>>, <<"\n">>}}

InitSanitize ==
    /\ PipeIdle("fn_sanitize")
    /\ TextIdle
    /\ config \in ConfigInputs /\ sanitized = <<>>
    /\ ArchIdle

\* sanitized holds the successive outputs: of the input, then of that output
FnSanitize ==
    /\ pc = "fn_sanitize"
    /\ Len(sanitized) < 2
    /\ sanitized' = Append(sanitized,
                           sanitize_git_config(IF sanitized = <<>> THEN config
                                               ELSE sanitized[Len(sanitized)]))
    /\ UNCHANGED <<pipeVars, textVars, config, archVars>>

NextSanitize == FnSanitize

SpecSanitize == InitSanitize /\ [][NextSanitize]_vars

(***************************************************************************)
(* The archive builder on its own: --bundle-only runs over many trees       *)
(***************************************************************************)
TrackedPool ==
    { <<>>,
      << <<"a.txt">> >>,
      << <<"a.txt">>, <<"sub">>, <<"link">> >>,
      << <<"a.txt">>, <<"out", "notes.md">>, <<DEFAULT_ARTIFACT_DIRNAME, "bundle.zip">> >> }
UntrackedPool ==
    { <<>>,
      << <<DEFAULT_ARTIFACT_DIRNAME, "bundle.zip">>, <<"a.txt">> >>,
      << <<"out", "bundle.zip">> >> }
GitFilesPool ==
    { {},
      { <<".git", "HEAD">>, <<".git", "config">> },
      { <<".git", "HEAD">>, <<".git", "config">>, <<".git", "index">>,
        <<".git", "index.lock">>, <<".git", "refs", "heads", "main">>,
        <<".git", "refs", "heads", "main.lock">>, <<".git", "info", "exclude">>,
        <<".git", "hooks", "pre-commit">> } }
ArtifactDirs ==
    { None, Some(<<DEFAULT_ARTIFACT_DIRNAME>>), Some(<<"out">>),
      Some(<<".git", "codex-review">>), Some(<<".git", "refs", "out">>) }
ArchiveConfigs ==
    { ScenarioConfig,
      <<"url", " ", "=", " ", "https://", "u", "@", "host", "/", "x", "\n",
        "extraheader", " ", "secret123">>,
      <<"x", " ", "=", " ", "token", "\n">> }

ArchiveTrees ==
    {f \in [tracked : TrackedPool, untracked : UntrackedPool, dirs : {{<<"sub">>}},
            symlinks : {{<<"link">>}}, missing : {{}, {<<"a.txt">>}},
            git_kind : {"dir", "file", "absent"}, git_files : GitFilesPool,
            artifact_dir : ArtifactDirs, config_readable : BOOLEAN] :
        /\ f.git_kind # "dir" => f.git_files = {} /\ f.config_readable
        /\ <<".git", "config">> \notin f.git_files => f.config_readable}

InitArchive ==
    /\ args \in {[ArgsDefault EXCEPT !.bundle_only = TRUE, !.include_git = m,
                                     !.max_zip_bytes = c] :
                    m \in {"none", "metadata", "full"}, c \in ZipCeilings}
    /\ pc = "build" /\ outcome = "running" /\ zip_size = -1
    /\ now = 0 /\ deadline = 0 /\ file_id = "none" /\ response_json = NoPayload
    /\ last_seen_digest = None /\ poll = NoPoll /\ calls = NoCalls
    /\ pending = "none"
    /\ TextIdle
    /\ fs \in ArchiveTrees
    /\ config \in ArchiveConfigs
    /\ (<<".git", "config">> \notin fs.git_files => config = ScenarioConfig)
    /\ sanitized = <<>> /\ entries = <<>>

NextArchive ==
    \/ CreateRepoBundleZip
    \/ BundleOnly

SpecArchive == InitArchive /\ [][NextArchive]_vars

(***************************************************************************)
(* Properties                                                               *)
(***************************************************************************)
AfterWaitStages == {"save_response", "extract", "gate", "apply", "report"}
PatchStages == {"extract", "gate", "apply", "report"}

\* C1: the patch applier is invoked at most once per run, and only when a patch
\* was extracted from the response text, the safety gate let it through (it
\* names no .git path, or the override flag is set), the no-apply flag is unset
\* and no earlier stage has failed; only the applier writes into the tree.
C1_ApplyOnlyAfterGate ==
    /\ calls.apply <= 1
    /\ calls.tree_writes <= calls.apply
    /\ calls.apply > 0 =>
          /\ patch.some /\ patch = extract_patch(text)
          /\ args.allow_git_dir_changes \/ ~diff_touches_git_dir(patch.val)
          /\ ~args.no_apply
          /\ pending = "none"
          /\ outcome \in {"running", "ok", "PatchApplyFailed"}
    /\ outcome \notin {"running", "ok", "PatchApplyFailed"} => calls.apply = 0

\* C1 witness: a run without the override applied a patch and returned 0
C1_Witness ==
    /\ outcome = "ok" /\ calls.tree_writes = 1
    /\ ~args.allow_git_dir_changes /\ ~args.manual

\* C2: upload and every later stage happen only after the build returned an
\* archive whose measured size is within the ceiling; a build whose measured
\* size exceeds the ceiling ends the run with ArchiveTooLarge before any
\* upload, job, wait or patch stage.
C2_SizeCheckedBeforeUpload ==
    /\ (pc \notin {"build", "done"} \/ calls.upload > 0) =>
          calls.build = 1 /\ zip_size >= 0 /\ zip_size <= args.max_zip_bytes
    /\ (calls.build = 1 /\ zip_size > args.max_zip_bytes) =>
          /\ outcome = "ArchiveTooLarge" /\ pc = "done"
          /\ calls.upload = 0 /\ calls.create = 0 /\ calls.delete = 0
          /\ calls.apply = 0 /\ poll = NoPoll /\ text = <<>> /\ patch = None

\* C2 witness: an archive of exactly the ceiling was uploaded
C2_Witness == calls.upload = 1 /\ zip_size = args.max_zip_bytes

\* C2 witness of the failing side is the state the second conjunct describes
C2_TooLargeSeen == outcome = "ArchiveTooLarge"

\* C3 as first stated: a reading equal to the previous successful reading runs
\* no extraction and logs nothing; a changed, non-empty reading without a patch
\* logs a warning and the wait goes on; a changed reading with a patch ends the
\* wait with exactly that content.
C3_AsStated ==
    poll.kind = "read" =>
        /\ poll.prev = Some(poll.content) => ~poll.ran_extract /\ ~poll.warned
        /\ (poll.prev # Some(poll.content) /\ poll.content # <<>>
              /\ ~extract_patch(poll.content).some) =>
                 poll.warned /\ pc = "manual_wait" /\ outcome = "running"
        /\ (poll.prev # Some(poll.content) /\ extract_patch(poll.content).some) =>
                 poll.returned /\ pc # "manual_wait" /\ text = poll.content

\* a text with at least one atom that is not whitespace
NonBlank(t) == \E i \in 1..Len(t) : t[i] \notin {" ", "\n"}

\* C3 amended: as stated, except that the warning is logged for a changed
\* reading without a patch only when it holds something other than whitespace;
\* a changed reading that is empty or all whitespace logs nothing, and the wait
\* goes on in both cases.
C3_LocalFileWait ==
    poll.kind = "read" =>
        /\ poll.prev = Some(poll.content) => ~poll.ran_extract /\ ~poll.warned
        /\ (poll.prev # Some(poll.content) /\ ~extract_patch(poll.content).some) =>
              /\ poll.ran_extract
              /\ poll.warned <=> NonBlank(poll.content)
              /\ ~poll.returned /\ pc = "manual_wait" /\ outcome = "running"
        /\ (poll.prev # Some(poll.content) /\ extract_patch(poll.content).some) =>
              /\ poll.ran_extract /\ ~poll.warned
              /\ poll.returned /\ pc # "manual_wait" /\ text = poll.content

\* C3 witness: the same patch-less reading twice in a row, the second one silent
C3_Witness ==
    /\ poll.kind = "read" /\ poll.prev = Some(poll.content)
    /\ poll.content = T_PROSE /\ ~poll.warned /\ pc = "manual_wait"

\* C4: a wait never returns without the completion check on its latest
\* reading: in remote-poll mode the payload handed on is the latest one obtained
\* and its status is terminal, and Timeout is raised only with the deadline
\* passed and the latest status not terminal; in local-file mode the text
\* handed on is the latest reading and it holds an extractable patch.
C4_FinalReadChecked ==
    /\ (~args.manual /\ ~args.no_background /\ pending = "none"
          /\ pc \in AfterWaitStages \cup {"finally"}) =>
             /\ poll.kind = "remote" /\ response_json = poll.reply
             /\ response_json.status \in TERMINAL
    /\ (~args.manual /\ pending = "WaitTimedOut") =>
             /\ now > deadline
             /\ response_json = poll.reply
             /\ response_json.status \notin TERMINAL
    /\ (args.manual /\ outcome = "WaitTimedOut") => now > deadline
    /\ (args.manual /\ args.manual_input = "file" /\ pc \in PatchStages) =>
             /\ poll.kind = "read" /\ text = poll.content
             /\ extract_patch(text).some

\* C4 witness: a terminal payload obtained after the deadline is still returned
C4_Witness ==
    /\ ~args.manual /\ ~args.no_background /\ pc = "save_response"
    /\ now > deadline /\ response_json.status = "completed"

\* the job phase is over: the upload succeeded and the finally block has run
JobPhaseOver == file_id # "none" /\ pc \notin {"create", "poll", "finally"}

\* C5: once the upload has succeeded, the delete is attempted exactly once on
\* every way out of the job phase unless the no-cleanup flag is set, and a
\* failed delete changes nothing: the pending error still ends the run, and a
\* run with no pending error goes on; non-2xx replies to upload and create are
\* fatal.
C5_CleanupBestEffort ==
    /\ JobPhaseOver =>
          /\ calls.delete = (IF args.no_cleanup THEN 0 ELSE 1)
          /\ pending # "none" => outcome = pending
          /\ pending = "none" => outcome # "URLError(delete)"
    /\ file_id = "none" => calls.delete = 0
    /\ outcome = "RemoteRequestFailed(upload)" => file_id = "none" /\ pc = "done"
    /\ pending = "RemoteRequestFailed(create)" => pc \in {"finally", "done"}


\* a fenced block whose opening fence is directly followed by the characters
\* "diff": an opening fence at i, the tag, and a closing fence at j
IsDiffBlock(t, i, j) ==
    /\ i + 1 < j /\ j <= Len(t)
    /\ t[i] = FENCE /\ t[i + 1] = "diff" /\ t[j] = FENCE

\* a fenced block tagged as a diff: the tag ends where "diff" ends
IsTaggedDiffBlock(t, i, j) ==
    /\ IsDiffBlock(t, i, j)
    /\ t[i + 2] \in {" ", "\n", FENCE}

HasDiffBlock(t) == \E i \in 1..Len(t), j \in 1..Len(t) : IsDiffBlock(t, i, j)
HasTaggedDiffBlock(t) == \E i \in 1..Len(t), j \in 1..Len(t) : IsTaggedDiffBlock(t, i, j)

\* the first such block: the leftmost opening fence that is closed, up to the
\* nearest closing fence
FirstBlockOpen(t) == Min({i \in 1..Len(t) : \E j \in 1..Len(t) : IsDiffBlock(t, i, j)})
FirstBlockClose(t) == Min({j \in 1..Len(t) : IsDiffBlock(t, FirstBlockOpen(t), j)})
FirstBlockContent(t) == SubSeq(t, FirstBlockOpen(t) + 2, FirstBlockClose(t) - 1)

FirstTaggedOpen(t) ==
    Min({i \in 1..Len(t) : \E j \in 1..Len(t) : IsTaggedDiffBlock(t, i, j)})
FirstTaggedClose(t) ==
    Min({j \in 1..Len(t) : IsTaggedDiffBlock(t, FirstTaggedOpen(t), j)})
FirstTaggedContent(t) == SubSeq(t, FirstTaggedOpen(t) + 2, FirstTaggedClose(t) - 1)

HeaderAt(t, k) == k + 3 <= Len(t) /\ SubSeq(t, k, k + 3) = DIFF_GIT
HasHeader(t) == \E k \in 1..Len(t) : HeaderAt(t, k)
FirstHeader(t) == Min({k \in 1..Len(t) : HeaderAt(t, k)})

\* r is s without the whitespace at its two ends
IsTrimOf(r, s) ==
    /\ \E a \in 0..Len(s), b \in 0..Len(s) :
          /\ a + b <= Len(s)
          /\ r = SubSeq(s, a + 1, Len(s) - b)
          /\ \A k \in 1..a : s[k] \in {" ", "\n"}
          /\ \A k \in (Len(s) - b + 1)..Len(s) : s[k] \in {" ", "\n"}
    /\ r # <<>> => r[1] \notin {" ", "\n"} /\ r[Len(r)] \notin {" ", "\n"}

\* p is the trimmed form of s followed by one newline
IsNormalized(p, s) ==
    /\ p # <<>> /\ p[Len(p)] = "\n"
    /\ IsTrimOf(SubSeq(p, 1, Len(p) - 1), s)

\* C6: when the text holds a fenced block tagged as a diff, the result is the
\* content of the first such block, trimmed and ended by exactly one newline,
\* whatever surrounds it; otherwise, when the text holds a "diff --git "
\* header, the result is the text from the first header to the end, trimmed and
\* ended by one newline; otherwise there is no result.
C6_ExtractSearchOrder ==
    pc = "fn_done" =>
        IF HasTaggedDiffBlock(text)
        THEN patch.some /\ IsNormalized(patch.val, FirstTaggedContent(text))
        ELSE IF HasHeader(text)
        THEN patch.some
             /\ IsNormalized(patch.val, SubSeq(text, FirstHeader(text), Len(text)))
        ELSE patch = None

\* the search order as the code has it, with every fence directly followed by
\* "diff" taken as a diff block, whatever follows the four letters
ExtractOrderWithPrefixTag ==
    pc = "fn_done" =>
        IF HasDiffBlock(text)
        THEN patch.some /\ IsNormalized(patch.val, FirstBlockContent(text))
        ELSE IF HasHeader(text)
        THEN patch.some
             /\ IsNormalized(patch.val, SubSeq(text, FirstHeader(text), Len(text)))
        ELSE patch = None

\* a bare header in the prose, then a fenced diff block with other content
HeaderBeforeFenceSeen ==
    /\ pc = "fn_done"
    /\ text = DIFF_GIT \o <<FENCE, "diff", "\n", "x", "\n", FENCE>>
    /\ patch = Some(<<"x", "\n">>)

\* a path word that names the internals directory or something below it
NamesInternals(w) == w # <<>> /\ w[1] = ".git" /\ (Len(w) = 1 \/ w[2] = "/")

\* the word without the given one-letter prefix and its slash, when it has it
Without(w, c) ==
    IF Len(w) >= 2 /\ w[1] = c /\ w[2] = "/" THEN SubSeq(w, 3, Len(w)) ELSE w

\* the word without a leading a/ or b/
WithoutAB(w) == IF Without(w, "a") # w THEN Without(w, "a") ELSE Without(w, "b")

IsDiffGitLine(line) == Len(line) >= 4 /\ SubSeq(line, 1, 4) = DIFF_GIT
IsFileLine(line) == Len(line) >= 2 /\ line[1] \in {"---", "+++"} /\ line[2] = " "

\* a "---" or "+++" line whose second word is not /dev/null and names internals
\* once a leading a/ or b/ is taken off
FileLineNamesInternals(line) ==
    /\ IsFileLine(line)
    /\ LET w == Split(line)
       IN Len(w) >= 2 /\ w[2] # P_DEV_NULL /\ NamesInternals(WithoutAB(w[2]))

\* C7 as first stated: the result is true exactly when some "diff --git" line
\* has a third word that names internals once a leading a/ is taken off, or a
\* fourth word that does once a leading b/ is taken off, or some "---" / "+++"
\* line has a second word other than /dev/null that does once a leading a/ or
\* b/ is taken off.  The line need not have a fourth word.
C7_AsStated ==
    pc = "fn_done" =>
        (touches <=>
            \E l \in 1..Len(SplitLines(patch.val)) :
                LET line == SplitLines(patch.val)[l]
                    w == Split(line)
                IN \/ /\ IsDiffGitLine(line)
                      /\ \/ Len(w) >= 3 /\ NamesInternals(Without(w[3], "a"))
                         \/ Len(w) >= 4 /\ NamesInternals(Without(w[4], "b"))
                   \/ FileLineNamesInternals(line))

\* C7 amended: the result is true exactly when some "diff --git" line of at
\* least four words has a third word that names internals once a leading a/ is
\* taken off or a fourth word that does once a leading b/ is taken off, or some
\* "---" / "+++" line has a second word other than /dev/null that does once a
\* leading a/ or b/ is taken off.  A "diff --git" line of three words never
\* counts, whatever its third word.
C7_TouchesInternals ==
    pc = "fn_done" =>
        (touches <=>
            \E l \in 1..Len(SplitLines(patch.val)) :
                LET line == SplitLines(patch.val)[l]
                    w == Split(line)
                IN \/ /\ IsDiffGitLine(line)
                      /\ Len(w) >= 4
                      /\ \/ NamesInternals(Without(w[3], "a"))
                         \/ NamesInternals(Without(w[4], "b"))
                   \/ FileLineNamesInternals(line))

\* C7 witness: the two headers of the claim, one tripping and one not
C7_Witness ==
    /\ pc = "fn_done"
    /\ \/ patch.val = DIFF_GIT \o P_A_GIT \o <<" ">> \o P_B_GIT \o <<"\n">> /\ touches
       \/ patch.val = DIFF_GIT \o P_A_IGNORE \o <<" ">> \o P_B_IGNORE \o <<"\n">>
          /\ ~touches


\* C8: sanitizing the output of the sanitizer gives that output again, for
\* every configuration text.
C8_Idempotent == Len(sanitized) = 2 => sanitized[1] = sanitized[2]

\* a line with the credential-header key as a word of its own, in any case
IsCredentialHeaderLine(line) ==
    \E i \in 1..Len(line) :
        /\ line[i] \in {"extraheader", "extraHeader", "EXTRAHEADER"}
        /\ (i = 1 \/ line[i - 1] \notin WordAtoms)
        /\ (i = Len(line) \/ line[i + 1] \notin WordAtoms \cup SchemeAtoms)

\* o is the line with everything after its first "=" replaced by the marker,
\* or the marker alone when the line has no "="
IsRedactionOf(o, line) ==
    IF \E k \in 1..Len(line) : line[k] = "="
    THEN \E k \in 1..Len(line) :
            /\ line[k] = "=" /\ \A j \in 1..(k - 1) : line[j] # "="
            /\ o = SubSeq(line, 1, k) \o <<" ", REDACTED>>
    ELSE o = <<REDACTED>>

SecretAtoms == {"secret123", "Bearer", "Authorization"}
HoldsSecret(t) == \E i \in 1..Len(t) : t[i] \in SecretAtoms

\* the configuration keeps its secrets on credential-header lines, after "="
SecretsOnlyInHeaders(conf) ==
    \A l \in 1..Len(SplitLines(conf)) :
        LET line == SplitLines(conf)[l]
        IN \A i \in 1..Len(line) :
              line[i] \in SecretAtoms =>
                 /\ IsCredentialHeaderLine(line)
                 /\ (\E k \in 1..Len(line) : line[k] = "=") =>
                        \E k \in 1..(i - 1) : line[k] = "="

\* C9: in metadata mode the configuration file enters the archive only as the
\* sanitizer's output, never verbatim; in that output every credential-header
\* line is replaced by the redaction marker, nothing after its first "="
\* is left, and no secret of such a line appears anywhere in the archive.
C9_NoCredentialInArchive ==
    (calls.build = 1 /\ args.include_git = "metadata") =>
        \A i \in 1..Len(entries) :
            LET e == entries[i]
                inl == SplitLines(config)
                outl == SplitLines(e.data)
            IN /\ e.src # <<".git", "config">>
               /\ e.arcname = <<".git", "config">> =>
                     /\ e.kind = "text"
                     /\ Len(outl) = Len(inl)
                     /\ \A l \in 1..Len(inl) :
                           IsCredentialHeaderLine(inl[l]) => IsRedactionOf(outl[l], inl[l])
               /\ SecretsOnlyInHeaders(config) => ~HoldsSecret(e.data)

\* C9 witness: the bearer-token line of the scenario went into the archive as
\* its key followed by the marker
C9_Witness ==
    /\ calls.build = 1 /\ args.include_git = "metadata"
    /\ config = ScenarioConfig
    /\ \E i \in 1..Len(entries) :
          /\ entries[i].arcname = <<".git", "config">>
          /\ entries[i].data =
                <<"http", ".", "extraHeader", " ", "=", " ", REDACTED, "\n">>

\* the paths of the metadata allow-list
InAllowList(p) ==
    \/ p \in { <<".git", "HEAD">>, <<".git", "packed-refs">>,
               <<".git", "info", "exclude">>, <<".git", "description">>,
               <<".git", "config">> }
    \/ Len(p) > 2 /\ p[1] = ".git" /\ p[2] = "refs"

\* C10: no entry of a built archive has an empty arcname; none lies inside the
\* artifact directory; an entry below .git is there only through the metadata
\* allow-list or through full mode, never a lock file in full mode, and with
\* mode none there is no entry below .git.
C10_ArchiveInvariant ==
    (calls.build = 1 /\ outcome # "ArchiveTooLarge") =>
        \A i \in 1..Len(entries) :
            LET p == entries[i].arcname
            IN /\ p # <<>>
               /\ ~(fs.artifact_dir.some /\ IsRelativeTo(p, fs.artifact_dir.val))
               /\ (Len(p) > 1 /\ p[1] = ".git") =>
                     /\ args.include_git # "none"
                     /\ args.include_git = "metadata" => InAllowList(p)
                     /\ args.include_git = "full" => p[Len(p)] \notin LockNames

\* the applier has run and the run went on past it
ApplySucceeded == calls.apply = 1 /\ outcome \in {"running", "ok"}

\* the message holds the word e right after the heading h
Carries(msg, h, e) == \E i \in 1..(Len(msg) - 1) : msg[i] = h /\ msg[i + 1] = e

\* C11: the strict apply is attempted first and exactly once per invocation of
\* the applier; the three-way apply is attempted only after a failed strict
\* attempt and at most once; the applier succeeds exactly when one of the two
\* attempts returned 0; when both failed the run ends with PatchApplyFailed,
\* whose message carries the stderr of both attempts, and nothing is retried.
C11_StrictThenMerge ==
    /\ calls.strict = calls.apply /\ calls.strict <= 1 /\ calls.threeway <= 1
    /\ calls.proc.some <=> calls.strict = 1
    /\ calls.proc_3way.some <=> calls.threeway = 1
    /\ calls.threeway = 1 <=>
          (calls.strict = 1 /\ calls.proc.val.returncode # 0)
    /\ calls.apply = 1 =>
          /\ ApplySucceeded <=>
                \/ calls.proc.val.returncode = 0
                \/ calls.threeway = 1 /\ calls.proc_3way.val.returncode = 0
          /\ ~ApplySucceeded <=> (outcome = "PatchApplyFailed" /\ pc = "done")
    /\ outcome = "PatchApplyFailed" =>
          /\ calls.strict = 1 /\ calls.threeway = 1
          /\ Carries(calls.error, "git apply error:\n", calls.proc.val.stderr)
          /\ Carries(calls.error, "git apply --3way error:\n",
                     calls.proc_3way.val.stderr)
    /\ outcome # "PatchApplyFailed" => calls.error = <<>>

\* C11 witness: the strict attempt failed, the three-way attempt applied the
\* patch and the run returned 0
C11_Witness ==
    /\ outcome = "ok" /\ calls.strict = 1 /\ calls.threeway = 1
    /\ calls.proc.val.returncode # 0 /\ calls.proc_3way.val.returncode = 0

\* both attempts failed, with different diagnostics
C11_BothFailedSeen ==
    /\ outcome = "PatchApplyFailed"
    /\ calls.proc.val.stderr # calls.proc_3way.val.stderr

(***************************************************************************)
(* _extract_post_apply_steps on its own                                     *)
(***************************************************************************)
MaxStepLines == 3

StepLines ==
    { <<"Post-apply steps">>, <<"POST-APPLY STEPS", ":">>,
      <<"post-apply steps", " ", ":", " ">>,
      <<"##", " ", "Post-apply steps">>, <<"#", "POST-APPLY STEPS", " ">>,
      <<"##", " ", "Post-apply steps", ":">>, <<" ", "#", " ", "post-apply steps", ":">>,
      <<"Post-apply steps", " ", "x">>,
      <<"x">>, <<" ", "x", " ">>, <<>>, <<"#">>, <<"##">>,
      <<"##", " ", "Notes">> }

StepsInputs ==
    {JoinLines(ls) : ls \in UNION {[1..n -> StepLines] : n \in 1..MaxStepLines}}
    \cup {JoinLines(ls) \o <<"\n">> :
             ls \in UNION {[1..n -> StepLines] : n \in 1..(MaxStepLines - 1)}}

InitSteps ==
    /\ PipeIdle("fn_steps")
    /\ text \in StepsInputs /\ patch = None /\ touches = FALSE /\ steps = None
    /\ ConfIdle /\ ArchIdle

FnExtractSteps ==
    /\ pc = "fn_steps"
    /\ steps' = extract_post_apply_steps(text)
    /\ pc' = "fn_done"
    /\ UNCHANGED <<args, outcome, zip_size, now, deadline, file_id, response_json,
                   last_seen_digest, poll, calls, pending, text, patch, touches,
                   confVars, archVars>>

NextSteps == FnExtractSteps

SpecSteps == InitSteps /\ [][NextSteps]_vars

\* a "Post-apply steps" heading in any of its stated forms: an optional run of
\* heading markers, the words in any letter case, an optional colon, and
\* nothing else but whitespace
IsStepsHeading(line) ==
    LET a == LStrip(SkipMarkers(LStrip(line)))
    IN /\ a # <<>> /\ a[1] \in HeadingAtoms
       /\ Strip(Tail(a)) \in {<<>>, <<":">>}

\* a line that begins with heading markers followed by non-whitespace
IsNewHeading(line) ==
    LET a == LStrip(line)
    IN /\ a # <<>> /\ a[1] \in MarkerAtoms
       /\ \/ a[1] = "##"
          \/ \E k \in 2..Len(a) : ~IsWs(a[k])

\* the steps as stated: the lines after the first heading, up to the next new
\* heading or the end, joined and trimmed; nothing when empty
StatedSteps(t) ==
    LET ls == SplitLines(t)
        heads == {i \in 1..Len(ls) : IsStepsHeading(ls[i])}
    IN IF heads = {} THEN None
       ELSE LET first == Min(heads)
                stops == {j \in (first + 1)..Len(ls) : IsNewHeading(ls[j])}
                last == IF stops = {} THEN Len(ls) ELSE Min(stops) - 1
                block == Strip(JoinLines(SubSeq(ls, first + 1, last)))
            IN IF block = <<>> THEN None ELSE Some(block)

\* C12: the heading is recognised with or without a leading heading marker,
\* with or without a trailing colon, in any letter case, in all four
\* combinations of marker and colon; the result is the trimmed lines after the
\* first such heading up to the next line that begins with heading markers
\* followed by non-whitespace, or to the end of the text; there is no result
\* when that block is empty or the text has no heading.
C12_StepsHeadingForms == pc = "fn_done" => steps = StatedSteps(text)

\* the same with the heading forms the code matches: marker without colon, or
\* no marker with an optional colon
C12_StepsThreeForms ==
    pc = "fn_done" =>
        LET ls == SplitLines(text)
            heads == {i \in 1..Len(ls) :
                        /\ IsStepsHeading(ls[i])
                        /\ ~(LStrip(ls[i])[1] \in MarkerAtoms
                             /\ \E k \in 1..Len(ls[i]) : ls[i][k] = ":")}
        IN IF heads = {} THEN steps = None
           ELSE LET first == Min(heads)
                    stops == {j \in (first + 1)..Len(ls) : IsNewHeading(ls[j])}
                    last == IF stops = {} THEN Len(ls) ELSE Min(stops) - 1
                    block == Strip(JoinLines(SubSeq(ls, first + 1, last)))
                IN steps = (IF block = <<>> THEN None ELSE Some(block))

\* the latest payload of a polled job reports that the job failed or was canceled
JobFailedOrCanceled ==
    /\ ~args.manual /\ ~args.no_background
    /\ poll.kind = "remote" /\ response_json = poll.reply
    /\ response_json.status \in {"failed", "canceled"}

\* C13: in remote-poll mode a text is handed on only from a job whose terminal
\* status is completed; when the job is reported failed or canceled the run
\* ends in a failure and the payload of that job never reaches patch
\* extraction, the safety gate or the patch applier, whatever output text it
\* carries.
C13_ReadyOnlyFromCompleted ==
    /\ (~args.manual /\ ~args.no_background /\ pc \in PatchStages) =>
          response_json.status = "completed"
    /\ JobFailedOrCanceled =>
          /\ pc \notin {"gate", "apply", "report"}
          /\ patch = None /\ calls.apply = 0
          /\ outcome # "ok"

InWait == pc \in {"manual_wait", "poll"}

\* a deadline check is made with the deadline passed: the top of an iteration
\* of the local-file loop, or the poll loop holding a non-terminal status
LateDeadlineCheck ==
    /\ now > deadline
    /\ \/ pc = "manual_wait"
       \/ pc = "poll" /\ response_json.status \notin TERMINAL

\* the step taken from there raises the timeout and sleeps no more
RaisesTimeout ==
    /\ now' = now
    /\ \/ pc = "manual_wait" /\ pc' = "done" /\ outcome' = "WaitTimedOut"
       \/ pc = "poll" /\ pc' = "finally" /\ pending' = "WaitTimedOut"

\* C14: both wait loops terminate: every wait eventually leaves its loop with
\* a result, a fatal error or the timeout; the deadline is the one computed
\* at the start of the wait, every sleep moves the clock on by at least one
\* second whatever the configured interval, and the timeout is raised at the
\* first deadline check made with that deadline passed, whatever the
\* collaborator reports or the file holds.
C14_WaitsTerminate ==
    /\ InWait ~> ~InWait
    /\ [][(InWait /\ pc' = pc) => (deadline' = deadline /\ now' >= now + 1)]_vars
    /\ [][LateDeadlineCheck => RaisesTimeout]_vars

\* C14 witness: a local-file wait with an interval below one second ran into
\* its deadline without ever reading a patch
C14_Witness ==
    /\ args.manual /\ args.poll_interval_seconds < 1
    /\ outcome = "WaitTimedOut" /\ now > deadline /\ poll.prev # None

====
